---- MODULE Spec2Model ----
(***************************************************************************)
(* Model of optimizer_comparison/std_qaoa/qaoa_from_bitflip.py:            *)
(*   - the objective function get_objective_fn(...).cf and the scoring     *)
(*     QAOAbf.obj_fn                          (specification SpecScore),   *)
(*   - the gate sequence built by get_cost_circuit acting on computational *)
(*     basis states                           (specification SpecCost),    *)
(*   - the driver QAOAbf.run with its executor closure, the optimizer and  *)
(*     the backend as nondeterministic collaborators (specification Spec). *)
(***************************************************************************)
EXTENDS Integers, Sequences, FiniteSets, TLC

VARIABLES
    formula,      \* the Boolean formula the driver / objective was built from
    phase,        \* position of run(): IDLE, INIT, OPTIMIZING, FINALIZING, DONE, ABORTED
    best_fval,    \* self.best_fval  (Unset before the first run)
    best_params,  \* self.best_params
    p,            \* run()'s argument p
    shots,        \* run()'s argument shots
    x0,           \* run()'s local initial_parameters
    calls,        \* executor calls of the current run that returned: {[params, val]}
    final_params, \* parameters the finalizing execution ran at (None: it has not run)
    returned,     \* the tuple the last returning run() gave its caller
    err,          \* the exception that left run(), "none" if none
    in_bitvec,    \* argument of a direct call of cf (<<>>: none)
    in_counts,    \* argument of a direct call of obj_fn
    call,         \* the direct call made: [fn, ret]
    qubits0,      \* basis state the cost circuit is applied to
    qubits,       \* current basis state
    gphase,       \* accumulated phase, in units of pi (mod 2): 1 is the factor -1
    gi            \* number of gates of the cost circuit already applied

drvVars   == <<phase, best_fval, best_params, p, shots, x0, calls, final_params, returned, err>>
scoreVars == <<in_bitvec, in_counts, call>>
circVars  == <<qubits0, qubits, gphase, gi>>
vars      == <<formula, drvVars, scoreVars, circVars>>

\* Python's None, and an attribute not yet assigned: the empty tuple, which no
\* parameter vector, fraction or result tuple equals
None  == <<>>
Unset == <<>>

\* ----------------------------------------------------------------- bounds
MaxAncilla == 1
MaxCount == 5
MaxKeys == 2
MaxP == 2
MaxShots == 2
MaxCalls == 2

\* ------------------------------------------------------- bitstrings, CNF
Bit == {"0", "1"}

BitStrings(n) == [1..n -> Bit]

\* pysat-style formulas: n variables, a list of clauses, each a list of signed literals
Formulas ==
    { [n |-> 1, cnf |-> << <<1>> >>],
      [n |-> 1, cnf |-> << <<-1>> >>],
      [n |-> 1, cnf |-> << <<1>>, <<-1>> >>],
      [n |-> 2, cnf |-> << <<1>>, <<-2>> >>],
      [n |-> 2, cnf |-> << <<1, 2>> >>],
      [n |-> 2, cnf |-> << <<-1, 2>>, <<1, -2>> >>] }

\* the formula x1
FormulaX1 == [n |-> 1, cnf |-> << <<1>> >>]

Abs(i) == IF i < 0 THEN -i ELSE i

\* lit_to_code: 'not x<|lit|>' for a negative literal, 'x<|lit|>' otherwise,
\* evaluated on the argument list args (args[i] is x_i)
lit_to_code(lit, args) == IF lit < 0 THEN ~args[Abs(lit)] ELSE args[Abs(lit)]

\* clause_to_code: first literal, then ' or ' + each further literal
RECURSIVE clause_to_code(_, _)
clause_to_code(clause, args) ==
    IF Len(clause) = 1 THEN lit_to_code(clause[1], args)
    ELSE clause_to_code(SubSeq(clause, 1, Len(clause) - 1), args)
            \/ lit_to_code(clause[Len(clause)], args)

\* get_classical_fn: body = first clause, then ' and ' + each further clause
RECURSIVE get_classical_fn(_, _)
get_classical_fn(cnf, args) ==
    IF Len(cnf) = 1 THEN clause_to_code(cnf[1], args)
    ELSE get_classical_fn(SubSeq(cnf, 1, Len(cnf) - 1), args)
            /\ clause_to_code(cnf[Len(cnf)], args)

\* input_formula.simulate(inputs): the first argument (x1) first; one output
simulate(f, inputs) == << get_classical_fn(f.cnf, inputs) >>

\* Python's bitvec[-k:] for k >= 1: the last k characters, all of them if fewer
LastChars(s, k) ==
    IF Len(s) <= k THEN s ELSE [i \in 1..k |-> s[Len(s) - k + i]]

\* Python's reversed(s)
Reversed(s) == [i \in 1..Len(s) |-> s[Len(s) - i + 1]]

cf_noreverse(f, bitvec) ==
    LET inputs_str == LastChars(bitvec, f.n)
        inputs == [i \in 1..Len(inputs_str) |-> inputs_str[i] = "1"]
        output == simulate(f, inputs)
    IN  IF output[1] THEN 0 ELSE 1

\* get_objective_fn(input_formula).cf
cf(f, bitvec) ==
    LET inputs_str == LastChars(bitvec, f.n)
        rev == Reversed(inputs_str)
        inputs == [i \in 1..Len(rev) |-> rev[i] = "1"]
        output == simulate(f, inputs)
    IN  IF output[1] THEN 0 ELSE 1

\* ---------------------------------------------------------------- scoring
RECURSIVE GCD(_, _)
GCD(a, b) == IF b = 0 THEN a ELSE GCD(b, a % b)

\* float(a)/float(b) for b > 0, kept exact as a fraction in lowest terms
FloatDiv(a, b) == LET g == GCD(a, b) IN << a \div g, b \div g >>

FLt(x, y) == x[1] * y[2] < y[1] * x[2]
FLe(x, y) == x[1] * y[2] <= y[1] * x[2]

Value(v) == [kind |-> "value", val |-> v]
Raise(e) == [kind |-> "raise", exc |-> e]

\* the for loop of obj_fn over counts.items(): <<sum_obj, num_entries>>
RECURSIVE obj_fn_loop(_, _, _)
obj_fn_loop(f, counts, keys) ==
    IF keys = {} THEN <<0, 0>>
    ELSE LET bitvec == CHOOSE k \in keys : TRUE
             acc == obj_fn_loop(f, counts, keys \ {bitvec})
             obj == cf(f, bitvec)
         IN  << acc[1] + obj * counts[bitvec], acc[2] + counts[bitvec] >>

obj_fn_unweighted(f, counts) ==
    LET keys == DOMAIN counts
        n1 == Cardinality({k \in keys : cf(f, k) = 1})
    IN  IF keys = {} THEN Raise("ZeroDivisionError")
        ELSE Value(FloatDiv(n1, Cardinality(keys)))

\* QAOAbf.obj_fn
obj_fn(f, counts) ==
    LET acc == obj_fn_loop(f, counts, DOMAIN counts)
    IN  IF acc[2] = 0 THEN Raise("ZeroDivisionError")
        ELSE Value(FloatDiv(acc[1], acc[2]))

\* count mappings: at most MaxKeys measured bitstrings of width w, counts 1..c
CountMaps(w, c) ==
    UNION { [S -> 1..c] : S \in { T \in SUBSET BitStrings(w) : Cardinality(T) <= MaxKeys } }

NoCall == [fn |-> "none", ret |-> None]

InitScoreIdle ==
    /\ in_bitvec = <<>>
    /\ in_counts = <<>>
    /\ call = NoCall

InitDrvIdle ==
    /\ phase = "IDLE"
    /\ best_fval = Unset
    /\ best_params = Unset
    /\ p = 0
    /\ shots = 0
    /\ x0 = None
    /\ calls = {}
    /\ final_params = None
    /\ returned = None
    /\ err = "none"

InitCircIdle ==
    /\ qubits0 = <<>>
    /\ qubits = <<>>
    /\ gphase = 0
    /\ gi = 0

\* ------------------------------------------- SpecScore: the pure functions
InitScore ==
    /\ formula \in Formulas
    /\ \/ /\ \E a \in 0..MaxAncilla : in_bitvec \in BitStrings(formula.n + 1 + a)
          /\ in_counts = <<>>
       \/ /\ in_bitvec = <<>>
          /\ in_counts \in CountMaps(formula.n + 1, MaxCount)
    /\ call = NoCall
    /\ InitDrvIdle
    /\ InitCircIdle

\* a direct call cf(bitvec) of the closure returned by get_objective_fn
CallCf ==
    /\ call = NoCall
    /\ in_bitvec # <<>>
    /\ call' = [fn |-> "cf", ret |-> cf(formula, in_bitvec)]
    /\ UNCHANGED <<formula, in_bitvec, in_counts, drvVars, circVars>>

\* a direct call obj_fn(counts)
CallObjFn ==
    /\ call = NoCall
    /\ in_bitvec = <<>>
    /\ call' = [fn |-> "obj_fn", ret |-> obj_fn(formula, in_counts)]
    /\ UNCHANGED <<formula, in_bitvec, in_counts, drvVars, circVars>>

NextScore == CallCf \/ CallObjFn

SpecScore == InitScore /\ [][NextScore]_vars

\* ------------------------------------- SpecCost: the phase-separation circuit
\* bcirc.num_qubits: the input qubits 0..n-1 (x1 on qubit 0) and the result qubit
num_qubits(f) == f.n + 1

get_cost_circuit_noflip(f) ==
    LET n == num_qubits(f)
    IN  << [g |-> "bcirc", q |-> n - 1, theta |-> 0],
           [g |-> "p", q |-> n - 1, theta |-> -1],
           [g |-> "bcirc", q |-> n - 1, theta |-> 0],
           [g |-> "x", q |-> n - 1, theta |-> 0],
           [g |-> "x", q |-> n - 1, theta |-> 0] >>

\* get_cost_circuit: the gates appended to cost_circ, in order; theta in units of pi
get_cost_circuit(f) ==
    LET n == num_qubits(f)
    IN  << [g |-> "x", q |-> n - 1, theta |-> 0],
           [g |-> "bcirc", q |-> n - 1, theta |-> 0],
           [g |-> "p", q |-> n - 1, theta |-> -1],
           [g |-> "bcirc", q |-> n - 1, theta |-> 0],
           [g |-> "x", q |-> n - 1, theta |-> 0] >>

\* the bitflip oracle from input_formula.synth(): |x, y> -> |x, y XOR f(x)>
bcirc(f, qs) ==
    LET inputs == [i \in 1..f.n |-> qs[i - 1] = 1]
        fx == IF simulate(f, inputs)[1] THEN 1 ELSE 0
    IN  [qs EXCEPT ![num_qubits(f) - 1] = (@ + fx) % 2]

InitCost ==
    /\ formula \in Formulas
    /\ qubits0 \in [0..(num_qubits(formula) - 1) -> {0, 1}]
    /\ qubits = qubits0
    /\ gphase = 0
    /\ gi = 0
    /\ InitScoreIdle
    /\ InitDrvIdle

NextGate == get_cost_circuit(formula)[gi + 1]

\* cost_circ.x(q)
ApplyX ==
    /\ gi < Len(get_cost_circuit(formula))
    /\ NextGate.g = "x"
    /\ qubits' = [qubits EXCEPT ![NextGate.q] = 1 - @]
    /\ gi' = gi + 1
    /\ UNCHANGED <<formula, qubits0, gphase, drvVars, scoreVars>>

\* cost_circ.append(bcirc, ...)
ApplyBcirc ==
    /\ gi < Len(get_cost_circuit(formula))
    /\ NextGate.g = "bcirc"
    /\ qubits' = bcirc(formula, qubits)
    /\ gi' = gi + 1
    /\ UNCHANGED <<formula, qubits0, gphase, drvVars, scoreVars>>

\* cost_circ.p(theta, q): the factor e^(i*theta) when qubit q is 1
ApplyP ==
    /\ gi < Len(get_cost_circuit(formula))
    /\ NextGate.g = "p"
    /\ gphase' = IF qubits[NextGate.q] = 1 THEN (gphase + NextGate.theta) % 2 ELSE gphase
    /\ gi' = gi + 1
    /\ UNCHANGED <<formula, qubits0, qubits, drvVars, scoreVars>>

NextCost == ApplyX \/ ApplyBcirc \/ ApplyP

SpecCost == InitCost /\ [][NextCost]_vars

\* ------------------------------------------------- Spec: the QAOA driver
Sentinel == 1000
FSentinel == <<Sentinel, 1>>

\* free parameters of the cost circuit (its phase gate has the fixed angle -pi)
CostParameters == 0
\* free parameters of the default mixer of QAOAAnsatz (one angle beta)
MixerParameters == 1

\* build_circuit(p): number of free parameters of QAOAAnsatz(cost_op, reps=p)
num_parameters(pp) == pp * (CostParameters + MixerParameters)

\* parameter vectors the caller and the optimizer propose: one angle repeated
Angles == {0, 1}
Vectors(len) == { [i \in 1..len |-> v] : v \in Angles }

\* tcirc.bind_parameters(paramlist)
bind_parameters(pp, paramlist) ==
    IF paramlist = None THEN "TypeError"
    ELSE IF Len(paramlist) # num_parameters(pp) THEN "ValueError"
    ELSE "ok"

\* measured bitstrings: the result qubit (leftmost character) reads 0
MeasuredKeys(f) == { b \in BitStrings(num_qubits(f)) : b[1] = "0" }

RECURSIVE Total(_, _)
Total(c, keys) ==
    IF keys = {} THEN 0
    ELSE LET k == CHOOSE k \in keys : TRUE IN c[k] + Total(c, keys \ {k})

\* result.get_counts(pcirc) of a run with sh shots: the outcomes seen, sh in all
BackendCounts(f, sh) ==
    { [k \in { k \in MeasuredKeys(f) : c[k] > 0 } |-> c[k]] :
        c \in { c \in [MeasuredKeys(f) -> 0..sh] : Total(c, MeasuredKeys(f)) = sh } }

\* backend.run(pcirc, shots).result(): the counts, or the backend's failure
BackendResults(f, sh) ==
    { [ok |-> TRUE, counts |-> c] : c \in BackendCounts(f, sh) }
        \cup { [ok |-> FALSE, counts |-> <<>>] }

record_best_last(obj_val, paramlist) == <<obj_val, paramlist>>

\* execute: if obj_val < self.best_fval: record obj_val and paramlist
record_best(obj_val, paramlist) ==
    IF FLt(obj_val, best_fval) THEN <<obj_val, paramlist>>
    ELSE <<best_fval, best_params>>

reset_best_once ==
    IF best_fval = Unset THEN <<FSentinel, None>> ELSE <<best_fval, best_params>>

\* run: self.best_fval = 1000; self.best_params = None
reset_best == <<FSentinel, None>>

final_parameters_x0 == x0

\* run: the parameters handed to get_outputs
final_parameters == best_params

execute_swallow(paramlist, res) ==
    IF bind_parameters(p, paramlist) # "ok" THEN Value(<<1, 1>>)
    ELSE IF ~res.ok THEN Value(<<1, 1>>)
    ELSE IF obj_fn(formula, res.counts).kind = "raise" THEN Value(<<1, 1>>)
    ELSE obj_fn(formula, res.counts)

\* execute(paramlist) up to the scoring, the backend answering res
execute_score(paramlist, res) ==
    IF bind_parameters(p, paramlist) # "ok" THEN Raise(bind_parameters(p, paramlist))
    ELSE IF ~res.ok THEN Raise("BackendExecutionError")
    ELSE obj_fn(formula, res.counts)

DriverFormulas == { FormulaX1 }

Init ==
    /\ formula \in DriverFormulas
    /\ InitDrvIdle
    /\ InitScoreIdle
    /\ InitCircIdle

\* run(): the reset of the best-result state and the arguments (a zero-shot
\* run or one of MaxShots shots)
Run ==
    /\ phase \in {"IDLE", "DONE", "ABORTED"}
    /\ \E pp \in 1..MaxP, sh \in {0, MaxShots} :
        \E init \in {None} \cup Vectors(pp) :
            /\ p' = pp
            /\ shots' = sh
            /\ x0' = init
    /\ best_fval' = reset_best[1]
    /\ best_params' = reset_best[2]
    /\ calls' = {}
    /\ final_params' = None
    /\ err' = "none"
    /\ phase' = "INIT"
    /\ UNCHANGED <<formula, returned, scoreVars, circVars>>

\* run(): get_executor, the default initial parameters, optimizer.minimize entered
StartMinimize ==
    /\ phase = "INIT"
    /\ IF x0 = None
         THEN x0' \in Vectors(2 * p)
         ELSE x0' = x0
    /\ phase' = "OPTIMIZING"
    /\ UNCHANGED <<formula, best_fval, best_params, p, shots, calls, final_params,
                   returned, err, scoreVars, circVars>>

\* the optimizer calls execute(paramlist)
Execute ==
    /\ phase = "OPTIMIZING"
    /\ Cardinality(calls) < MaxCalls
    /\ \E paramlist \in Vectors(Len(x0)) :
        \E res \in BackendResults(formula, shots) :
            LET r == execute_score(paramlist, res)
            IN  IF r.kind = "raise"
                  THEN /\ err' = r.exc
                       /\ phase' = "ABORTED"
                       /\ UNCHANGED <<best_fval, best_params, calls>>
                  ELSE /\ best_fval' = record_best(r.val, paramlist)[1]
                       /\ best_params' = record_best(r.val, paramlist)[2]
                       /\ calls' = calls \cup {[params |-> paramlist, val |-> r.val]}
                       /\ UNCHANGED <<err, phase>>
    /\ UNCHANGED <<formula, p, shots, x0, final_params, returned, scoreVars, circVars>>

\* optimizer.minimize returns
MinimizeReturn ==
    /\ phase = "OPTIMIZING"
    /\ phase' = "FINALIZING"
    /\ UNCHANGED <<formula, best_fval, best_params, p, shots, x0, calls, final_params,
                   returned, err, scoreVars, circVars>>

\* run(): get_outputs at the best parameters, then the return of the tuple
GetOutputs ==
    /\ phase = "FINALIZING"
    /\ \E res \in BackendResults(formula, shots) :
        LET b == bind_parameters(p, final_parameters)
        IN  IF b # "ok" \/ ~res.ok
              THEN /\ err' = (IF b # "ok" THEN b ELSE "BackendExecutionError")
                   /\ phase' = "ABORTED"
                   /\ UNCHANGED <<final_params, returned>>
              ELSE /\ final_params' = final_parameters
                   /\ returned' = [result |-> "OptimizeResult", counts |-> res.counts,
                                   fval |-> best_fval, params |-> best_params]
                   /\ phase' = "DONE"
                   /\ UNCHANGED err
    /\ UNCHANGED <<formula, best_fval, best_params, p, shots, x0, calls,
                   scoreVars, circVars>>

Next == Run \/ StartMinimize \/ Execute \/ MinimizeReturn \/ GetOutputs

Spec == Init /\ [][Next]_vars

\* ------------------------------------------------ claims about SpecScore
\* the formula is satisfied when variable i takes the i-th character of b
\* counted from the right end
SatFromRight(f, b) ==
    \A c \in 1..Len(f.cnf) :
        \E j \in 1..Len(f.cnf[c]) :
            LET lit == f.cnf[c][j]
                v == b[Len(b) - Abs(lit) + 1] = "1"
            IN  IF lit > 0 THEN v ELSE ~v

\* C6: for a bitstring at least as long as the number of variables, cf returns 0
\* iff the formula holds under "variable i = i-th character from the right",
\* else 1; the characters before the last k do not matter; for the formula x1 a
\* string ending in "1" gives 0 and one ending in "0" gives 1.
C6_ObjectiveBitOrder ==
    call.fn = "cf" =>
        /\ Len(in_bitvec) >= formula.n
        /\ call.ret \in {0, 1}
        /\ (call.ret = 0) <=> SatFromRight(formula, in_bitvec)
        /\ \A b \in BitStrings(Len(in_bitvec)) :
              (\A i \in 1..formula.n :
                  b[Len(b) - i + 1] = in_bitvec[Len(in_bitvec) - i + 1])
              => cf(formula, b) = call.ret
        /\ formula = FormulaX1 =>
              call.ret = (IF in_bitvec[Len(in_bitvec)] = "1" THEN 0 ELSE 1)

C6_Witness ==
    /\ call.fn = "cf"
    /\ formula.n = 2
    /\ Len(in_bitvec) > formula.n + 1
    /\ in_bitvec[Len(in_bitvec)] = "1"
    /\ in_bitvec[Len(in_bitvec) - 1] = "0"
    /\ in_bitvec[1] = "1"
    /\ call.ret = 0

\* one element per single measurement recorded in a counts mapping
ShotSet(c) == UNION { { <<k, i>> : i \in 1..c[k] } : k \in DOMAIN c }

UnsatShots(f, c) == { s \in ShotSet(c) : ~SatFromRight(f, s[1]) }

ExampleCounts == (<<"0", "0">> :> 5) @@ (<<"1", "1">> :> 5)

\* C4: for a non-empty counts mapping with positive counts, obj_fn returns the
\* count-weighted mean of the {0,1} objective; it lies in [0,1], is 0 exactly
\* when every measured bitstring satisfies the formula and 1 exactly when none
\* does; {"00": 5, "11": 5} with objective 0 for "11" and 1 for "00" gives 0.5.
C4_WeightedMean ==
    (call.fn = "obj_fn" /\ in_counts # <<>>) =>
        /\ call.ret.kind = "value"
        /\ LET v == call.ret.val
           IN  /\ v[2] > 0
               /\ v[1] * Cardinality(ShotSet(in_counts))
                    = v[2] * Cardinality(UnsatShots(formula, in_counts))
               /\ 0 <= v[1] /\ v[1] <= v[2]
               /\ (v[1] = 0) <=>
                    \A k \in DOMAIN in_counts : SatFromRight(formula, k)
               /\ (v[1] = v[2]) <=>
                    \A k \in DOMAIN in_counts : ~SatFromRight(formula, k)
               /\ (formula = FormulaX1 /\ in_counts = ExampleCounts) => v = <<1, 2>>

C4_Witness ==
    /\ call.fn = "obj_fn"
    /\ formula = FormulaX1
    /\ in_counts = ExampleCounts
    /\ call.ret = Value(<<1, 2>>)

\* C5: obj_fn called with an empty counts mapping raises NoMeasurementsError
\* instead of dividing by zero.
C5_EmptyCountsRaisesNoMeasurements ==
    (call.fn = "obj_fn" /\ in_counts = <<>>) =>
        call.ret = Raise("NoMeasurementsError")

\* ------------------------------------------------- claims about SpecCost
\* the formula holds when variable i takes the value of input qubit i-1
SatQubits(f, qs) ==
    \A c \in 1..Len(f.cnf) :
        \E j \in 1..Len(f.cnf[c]) :
            LET lit == f.cnf[c][j]
            IN  IF lit > 0 THEN qs[lit - 1] = 1 ELSE qs[Abs(lit) - 1] = 0

\* C7: on a basis state whose result qubit is 0, the whole cost circuit gives the
\* factor -1 exactly when the input assignment does not satisfy the formula and
\* +1 when it does, and every qubit, the result qubit included, is back at its
\* initial value.
C7_PhaseOnUnsatisfying ==
    (gi = 5 /\ qubits0[num_qubits(formula) - 1] = 0) =>
        /\ qubits = qubits0
        /\ gphase = (IF SatQubits(formula, qubits0) THEN 0 ELSE 1)

C7_Witness ==
    /\ gi = 5
    /\ formula.n = 2
    /\ qubits0 = (0 :> 0) @@ (1 :> 1) @@ (2 :> 0)
    /\ ~SatQubits(formula, qubits0)
    /\ gphase = 1
    /\ qubits = qubits0

\* ----------------------------------------------------- claims about Spec
Vals(cs) == { c.val : c \in cs }

\* the least of the values the executor returned in this run
IsMin(v, cs) == v \in Vals(cs) /\ \A w \in Vals(cs) : FLe(v, w)

\* C1: after the reset of run(), whatever sequence of executor calls is made,
\* best_fval is the minimum of the values the executor returned and best_params
\* is the parameter vector of a call that returned it; from one call to the next
\* best_fval never increases.
C1_BestIsMinimum ==
    [][ /\ (phase' = "OPTIMIZING" /\ calls' = {}) =>
              (best_fval' = FSentinel /\ best_params' = None)
        /\ (phase' = "OPTIMIZING" /\ calls' # {}) =>
              /\ IsMin(best_fval', calls')
              /\ [params |-> best_params', val |-> best_fval'] \in calls'
        /\ (phase = "OPTIMIZING" /\ phase' = "OPTIMIZING") =>
              FLe(best_fval', best_fval)
      ]_vars

C1_Witness ==
    /\ phase = "OPTIMIZING"
    /\ \E a, b \in calls :
          /\ FLt(a.val, b.val)
          /\ a.params # b.params
          /\ best_fval = a.val
          /\ best_params = a.params
          /\ FLt(<<0, 1>>, a.val)

Order ==
    { <<"IDLE", "INIT">>, <<"DONE", "INIT">>, <<"ABORTED", "INIT">>,
      <<"INIT", "OPTIMIZING">>, <<"OPTIMIZING", "FINALIZING">>,
      <<"FINALIZING", "DONE">>,
      <<"OPTIMIZING", "ABORTED">>, <<"FINALIZING", "ABORTED">> }

\* C2: a run passes INIT, OPTIMIZING, FINALIZING, DONE in that order (an error
\* leaves it from OPTIMIZING or FINALIZING): the best-result state is reset
\* before any executor call, executor calls happen only while minimize runs, the
\* one finalizing execution happens only after minimize returned and runs at
\* the recorded best parameters, and run() then returns
\* (optimizer result, final counts, best_fval, best_params).
C2_PhaseOrder ==
    [][ /\ phase' # phase => <<phase, phase'>> \in Order
        /\ phase' = "INIT" =>
              /\ best_fval' = FSentinel /\ best_params' = None
              /\ calls' = {} /\ final_params' = None
        /\ (calls' # calls /\ phase' # "INIT") =>
              (phase = "OPTIMIZING" /\ phase' = "OPTIMIZING")
        /\ (final_params' # final_params /\ phase' # "INIT") =>
              /\ phase = "FINALIZING" /\ phase' = "DONE"
              /\ final_params = None
              /\ final_params' = best_params
        /\ returned' # returned => (phase = "FINALIZING" /\ phase' = "DONE")
        /\ (phase = "FINALIZING" /\ phase' = "DONE") =>
              /\ final_params' = best_params /\ final_params' # None
              /\ returned'.result = "OptimizeResult"
              /\ returned'.counts \in BackendCounts(formula, shots)
              /\ returned'.fval = best_fval
              /\ returned'.params = best_params
              /\ UNCHANGED <<best_fval, best_params, calls>>
      ]_vars

C2_Witness ==
    /\ phase = "DONE"
    /\ Cardinality(calls) = MaxCalls
    /\ final_params = best_params
    /\ final_params # x0
    /\ returned.params = best_params
    /\ returned.fval = best_fval
    /\ p = 2

\* C3: run() resets the best-result state at its start, so what a run reports is
\* decided by the executor calls of that run alone: it is the least value those
\* calls returned, with the parameters of one of them, also when an earlier run
\* on the same driver recorded a smaller value.
C3_ResetEachRun ==
    /\ phase = "INIT" => (best_fval = FSentinel /\ best_params = None)
    /\ phase \in {"FINALIZING", "DONE"} =>
          IF calls = {} THEN best_fval = FSentinel /\ best_params = None
          ELSE /\ IsMin(best_fval, calls)
               /\ [params |-> best_params, val |-> best_fval] \in calls
    /\ phase = "DONE" => (returned.fval = best_fval /\ returned.params = best_params)

C3_WitnessEarlierSmaller ==
    /\ phase = "FINALIZING"
    /\ returned # None
    /\ calls # {}
    /\ FLt(returned.fval, best_fval)
    /\ returned.params # best_params

\* C8: the ansatz of build_circuit(p) has exactly 2p free parameters, so the
\* vector of length 2p that run() samples by default binds to the compiled
\* circuit: an executor call at it does not fail on the parameter count.
C8_AnsatzHas2pParameters ==
    (phase = "ABORTED" /\ Len(x0) = 2 * p) => err # "ValueError"

\* C9 as stated: a failing executor call aborts run() with that error, nothing
\* more is executed or returned, and the best-result state of the partial run
\* cannot be recovered from the driver.
C9_PartialBestNotRecoverable ==
    phase = "ABORTED" =>
        /\ err # "none"
        /\ \A c \in calls : c.val # best_fval /\ c.params # best_params

\* C9 as amended: a failing executor call aborts run() with that error: the
\* error is kept, no further executor call and no finalizing execution follows,
\* run() returns no tuple; the best-result state of the partial run stays in
\* the driver's attributes until the next run() resets it.
C9_FailureAborts ==
    [][ /\ (phase' = "ABORTED" /\ phase # "ABORTED") =>
              /\ err' \in {"ValueError", "TypeError", "BackendExecutionError",
                           "ZeroDivisionError"}
              /\ UNCHANGED <<returned, calls, final_params, best_fval, best_params>>
        /\ phase = "ABORTED" => phase' \in {"ABORTED", "INIT"}
        /\ (phase' # "ABORTED") => err' = "none"
        /\ (phase' \in {"OPTIMIZING", "FINALIZING", "DONE"} /\ calls' # {}) =>
              (shots' > 0 /\ Len(x0') = num_parameters(p'))
        /\ (phase' = "DONE") =>
              (shots' > 0 /\ Len(x0') = num_parameters(p'))
      ]_vars

C9_Witness ==
    /\ phase = "ABORTED"
    /\ err = "BackendExecutionError"
    /\ final_params = None
    /\ calls # {}
    /\ IsMin(best_fval, calls)
    /\ best_params # None

\* C10: when run() reaches its finalizing step, and when it returns, best_params
\* is a parameter vector passed to an executor call of this run and best_fval a
\* value such a call returned, also for an optimizer that returns without
\* calling the executor.
C10_BestIsFromThisRun ==
    phase \in {"FINALIZING", "DONE"} =>
        /\ best_params # None
        /\ best_fval # FSentinel
        /\ [params |-> best_params, val |-> best_fval] \in calls

====
